---------------------------- MODULE Spec2Model ----------------------------
(***************************************************************************)
(* HangulNumberConverter: a reversible base-128 codec between non-negative *)
(* integers and strings of Hangul syllables (src/hangulNumber.ts and its   *)
(* C# port src/hangulNumber.cs).                                           *)
(*                                                                         *)
(* A string is a sequence of UTF-16 code units, the storage unit of both   *)
(* hosts.  A symbol of the alphabet is a string of one code unit.  A       *)
(* number argument is a record [int, frac]: the value int + 1/2 when frac  *)
(* is TRUE (a TypeScript number that is not whole), the value int          *)
(* otherwise.  A number decode returns is a record [neg, mag], computed in *)
(* the width of the host's number type.  A call's outcome is a record:     *)
(* Return(v) or Throw(e).  The interactive loop at the end of each source  *)
(* file is a specification of its own, SpecCli.                            *)
(***************************************************************************)
EXTENDS Integers, Sequences, FiniteSets, TLC

VARIABLES
    impl,         \* "ts" or "cs": which of the two implementations runs
    chars,        \* the class's CHARS table
    REVERSE_MAP,  \* the class's REVERSE_MAP, built by the static initializer
    warned,       \* the static initializer logged the size warning
    op,           \* the codec operation called last ("init": none yet;
                  \* "encodeDecoded": encodeWithSeed on a decoded number)
    num,          \* the number passed to the last encode-family call
    seed,         \* the seed passed to (or drawn by) the last encode call
    enc,          \* outcome of the last encodeWithSeed / encode call
    all,          \* outcome of the last encodeAll call
    idx,          \* index into the encodeAll result that was decoded
    input,        \* the string passed to the last decode call
    dec,          \* outcome of the last decode call
    origin,       \* the call that produced input: "none", "raw",
                  \* "encodeWithSeed", "encode" or "encodeAll"
    loop,         \* the interactive loop: "prompt" (waiting for a line),
                  \* "answered" (a line was read) or "closed"
    answer,       \* the line the interactive loop read last
    report        \* what the interactive loop printed for that line

vars == <<impl, chars, REVERSE_MAP, warned, op, num, seed, enc, all, idx,
          input, dec, origin, loop, answer, report>>

-----------------------------------------------------------------------------
(* Bounds of the model *)

\* encode-family calls take the numbers 0..MaxNum and BoundaryNums
MaxNum == 130
\* raw decode inputs are the strings of at most MaxLen code units over Units
MaxLen == 3
\* and the strings of LongStrings, of up to MaxData data symbols
MaxData == 12
\* the interactive loop reads, among others, every line of at most MaxLine
\* units over LineUnits
MaxLine == 3
\* Math.random() is drawn from the fractions k / RandSteps, k in 0..RandSteps-1
RandSteps == 256

-----------------------------------------------------------------------------
(* The alphabet *)

\* the radix and the number of seeds (the literal 128 of the source)
Base == 128

\* CHARS: the 128 syllables in source order, each a string of one UTF-16
\* code unit
CHARS ==
    <<
       \* initial g
       <<44032>>, <<44036>>, <<44053>>, <<44060>>, <<44144>>,
       <<44256>>, <<44277>>, <<44396>>, <<44552>>,
       \* initial n
       <<45208>>, <<45216>>, <<45224>>, <<45236>>, <<45320>>,
       <<45432>>, <<45576>>, <<45720>>, <<45768>>,
       \* initial d
       <<45796>>, <<45804>>, <<45812>>, <<45824>>, <<45908>>,
       <<46020>>, <<46041>>, <<46160>>, <<46300>>,
       \* initial r
       <<46972>>, <<46988>>, <<46993>>, <<47000>>, <<47084>>,
       <<47196>>, <<47336>>, <<47532>>, <<47548>>,
       \* initial m
       <<47560>>, <<47564>>, <<47568>>, <<47588>>, <<47672>>,
       <<47784>>, <<47924>>, <<47928>>, <<48120>>,
       \* initial b
       <<48148>>, <<48152>>, <<48169>>, <<48176>>, <<48372>>,
       <<48388>>, <<48512>>, <<48708>>, <<48712>>,
       \* initial s
       <<49324>>, <<49328>>, <<49345>>, <<49352>>, <<49436>>,
       <<49440>>, <<49548>>, <<49569>>, <<49688>>, <<49884>>,
       \* initial ng (vowel onset)
       <<50500>>, <<50504>>, <<50577>>, <<50612>>, <<50672>>,
       <<50689>>, <<50724>>, <<50728>>, <<50864>>, <<51060>>,
       \* initial j
       <<51088>>, <<51092>>, <<51109>>, <<51116>>, <<51200>>,
       <<51312>>, <<51452>>, <<51473>>, <<51648>>,
       \* initial ch
       <<52264>>, <<52268>>, <<52285>>, <<52292>>, <<52380>>,
       <<52488>>, <<52632>>, <<52649>>, <<52824>>,
       \* initial k
       <<52852>>, <<52856>>, <<53076>>, <<53216>>, <<53356>>,
       <<53412>>, <<52880>>, <<52992>>, <<53097>>,
       \* initial t
       <<53440>>, <<53444>>, <<53468>>, <<53552>>, <<53664>>,
       <<53685>>, <<53804>>, <<53944>>, <<54000>>,
       \* initial p
       <<54028>>, <<54032>>, <<54056>>, <<54252>>, <<54413>>,
       <<54532>>, <<54588>>, <<54036>>, <<54408>>,
       \* initial h
       <<54616>>, <<54620>>, <<54644>>, <<54728>>, <<54840>>,
       <<54861>>, <<54868>>, <<54980>>, <<55176>>
    >>

\* outcomes of a call
Return(v) == [kind |-> "return", val |-> v]
Throw(e) == [kind |-> "throw", err |-> e]
NoResult == [kind |-> "none"]

\* the messages of the thrown errors
ErrNumber == "Number must be a non-negative integer"
ErrSeed == "Seed must be between 0 and 127"
ErrLength == "Invalid string: must be at least 2 characters"
ErrEmpty == "Invalid string: must not be null or empty"
ErrSeedChar == "Invalid seed character"
ErrChar == "Invalid character"
ErrIndex == "IndexOutOfRangeException"

\* a reverse map that stores positions counted from 1
BuildReverseMapFromOne(table) ==
    [c \in {table[i] : i \in DOMAIN table} |->
        CHOOSE i \in DOMAIN table :
            /\ table[i] = c
            /\ \A j \in DOMAIN table : table[j] = c => j <= i]

\* forEach((char, index) => REVERSE_MAP[char] = index): every symbol of the
\* table gets an entry, and a later entry with the same symbol overwrites
\* the earlier one, so a symbol maps to the last index that holds it
BuildReverseMap(table) ==
    [c \in {table[i] : i \in DOMAIN table} |->
        (CHOOSE i \in DOMAIN table :
            /\ table[i] = c
            /\ \A j \in DOMAIN table : table[j] = c => j <= i) - 1]

\* the static initializer: warn when the table is not 128 long, then build
\* the reverse map; it has no failing path
StaticInit(table) ==
    [warned |-> Len(table) # Base,
     map |-> BuildReverseMap(table)]


-----------------------------------------------------------------------------
(* encodeWithSeed *)

\* the digits left least-significant first
ReverseOmitted(s) == s

\* digits.reverse()
Reverse(s) == [i \in 1..Len(s) |-> s[Len(s) + 1 - i]]

\* while (temp > 0) { digits.push(temp % 128); temp = Math.floor(temp / 128); }
RECURSIVE ToDigitsLoop(_, _)
ToDigitsLoop(temp, digits) ==
    IF temp > 0
    THEN ToDigitsLoop(temp \div Base, Append(digits, temp % Base))
    ELSE digits

\* A number argument is what a caller wrote, [int, frac], or a number decode
\* returned, [neg, mag] (always whole)
IsDecoded(n) == "mag" \in DOMAIN n

\* num < 0
IsNegative(n) == IF IsDecoded(n) THEN n.neg ELSE n.int < 0

\* Number.isInteger(num)
IsWhole(n) == IsDecoded(n) \/ ~n.frac

\* num === 0
IsZero(n) == IF IsDecoded(n) THEN n.mag = <<>> ELSE n.int = 0

\* the digit loop on a number decode returned: temp % 128 is the last digit
\* of its magnitude, Math.floor(temp / 128) the digits before it (exact on
\* a long and on a double)
RECURSIVE MagToDigitsLoop(_, _)
MagToDigitsLoop(temp, digits) ==
    IF temp # <<>>
    THEN MagToDigitsLoop(SubSeq(temp, 1, Len(temp) - 1),
                         Append(digits, temp[Len(temp)]))
    ELSE digits

ToDigits(n) ==
    IF IsDecoded(n) THEN MagToDigitsLoop(n.mag, <<>>)
    ELSE ToDigitsLoop(n.int, <<>>)

\* a scramble with the modulus one short
ScrambleMod127(d, s) == (d + s) % (Base - 1)

\* (d + seed) % 128
Scramble(d, s) == (d + s) % Base

\* TypeScript: this.CHARS[i] is undefined when i is not an index of the table
TsIndex(table, i) ==
    IF i + 1 \in DOMAIN table
    THEN [def |-> TRUE, str |-> table[i + 1]]
    ELSE [def |-> FALSE, str |-> <<>>]

\* the text of String(undefined)
UndefinedText == <<117, 110, 100, 101, 102, 105, 110, 101, 100>>

\* the text of String(NaN)
NaNText == <<78, 97, 78>>

\* TypeScript: a + b on values that are strings or undefined; undefined +
\* undefined is the number NaN, kept here as its text (decode and the
\* console treat the two alike)
TsPlus(a, b) ==
    IF a.def /\ b.def THEN a.str \o b.str
    ELSE IF a.def THEN a.str \o UndefinedText
    ELSE IF b.def THEN UndefinedText \o b.str
    ELSE NaNText

\* TypeScript: digits.map(d => CHARS[(d + seed) % 128]).join(''); join takes
\* an undefined element as the empty string
RECURSIVE TsMapJoin(_, _, _, _)
TsMapJoin(table, digits, s, i) ==
    IF i > Len(digits) THEN <<>>
    ELSE TsIndex(table, Scramble(digits[i], s)).str
            \o TsMapJoin(table, digits, s, i + 1)

\* a seed test that lets 128 through
SeedOutOfRangeInclusive(s) == s < 0 \/ s > Base

\* seed < 0 || seed >= 128
SeedOutOfRange(s) == s < 0 \/ s >= Base

TsEncodeWithSeed(table, n, s) ==
    IF IsNegative(n) \/ ~IsWhole(n) THEN Throw(ErrNumber)
    ELSE IF SeedOutOfRange(s) THEN Throw(ErrSeed)
    ELSE LET seedChar == TsIndex(table, s) IN
         IF IsZero(n)
         THEN Return(TsPlus(seedChar, TsIndex(table, Scramble(0, s))))
         ELSE LET digits == Reverse(ToDigits(n))
                  dataChars == TsMapJoin(table, digits, s, 1)
              IN Return(TsPlus(seedChar, [def |-> TRUE, str |-> dataChars]))

\* C#: foreach (int d in digits) sb.Append(CHARS[(d + seed) % 128]); an index
\* outside the array throws
RECURSIVE CsAppendLoop(_, _, _, _, _)
CsAppendLoop(table, digits, s, i, sb) ==
    IF i > Len(digits) THEN Return(sb)
    ELSE IF Scramble(digits[i], s) + 1 \notin DOMAIN table THEN Throw(ErrIndex)
    ELSE CsAppendLoop(table, digits, s, i + 1,
                      sb \o table[Scramble(digits[i], s) + 1])

\* C#: num is a long, so it is always whole
CsEncodeWithSeed(table, n, s) ==
    IF IsNegative(n) THEN Throw(ErrNumber)
    ELSE IF SeedOutOfRange(s) THEN Throw(ErrSeed)
    ELSE IF s + 1 \notin DOMAIN table THEN Throw(ErrIndex)
    ELSE LET seedChar == table[s + 1] IN
         IF IsZero(n)
         THEN CsAppendLoop(table, <<0>>, s, 1, seedChar)
         ELSE CsAppendLoop(table, Reverse(ToDigits(n)), s, 1, seedChar)

EncodeWithSeed(im, table, n, s) ==
    IF im = "ts" THEN TsEncodeWithSeed(table, n, s)
    ELSE CsEncodeWithSeed(table, n, s)

-----------------------------------------------------------------------------
(* encode *)

\* a draw that rounds to the nearest integer instead of down
TsRandomSeedRounded(k) == (2 * k * Base + RandSteps) \div (2 * RandSteps)

\* TypeScript: Math.floor(Math.random() * 128) with Math.random() = k / RandSteps
TsRandomSeed(k) == (k * Base) \div RandSteps

\* the seeds one call of encode can draw
DrawnSeeds(im) ==
    IF im = "ts" THEN {TsRandomSeed(k) : k \in 0..(RandSteps - 1)}
    ELSE 0..(Base - 1)      \* C#: _random.Next(128)

-----------------------------------------------------------------------------
(* encodeAll *)

\* a loop that starts at seed 1
EncodeAllFromOne(im, table, n) ==
    LET call == [s \in 1..(Base - 1) |-> EncodeWithSeed(im, table, n, s)]
        thrown == {s \in 1..(Base - 1) : call[s].kind = "throw"}
    IN  IF thrown # {}
        THEN call[CHOOSE s \in thrown : \A t \in thrown : s <= t]
        ELSE Return([i \in 1..(Base - 1) |-> call[i].val])

\* for (let seed = 0; seed < 128; seed++) results.push(encodeWithSeed(num, seed)):
\* the calls in ascending seed order; the first one that throws ends the
\* loop with its error, otherwise the 128 strings are returned
EncodeAll(im, table, n) ==
    LET call == [s \in 0..(Base - 1) |-> EncodeWithSeed(im, table, n, s)]
        thrown == {s \in 0..(Base - 1) : call[s].kind = "throw"}
    IN  IF thrown # {}
        THEN call[CHOOSE s \in thrown : \A t \in thrown : s <= t]
        ELSE Return([i \in 1..Base |-> call[i - 1].val])

-----------------------------------------------------------------------------
(* The numbers decode computes.  A number decode returns is written        *)
(* [neg, mag]: its sign and the base-128 digits of its magnitude, most     *)
(* significant first, without a leading zero (<<>> for 0).  While the loop *)
(* runs, the accumulator is held the way the host holds it: a 64-bit       *)
(* two's-complement long in C#, an IEEE double in TypeScript.              *)

\* the limbs of a C# long: bit 63 (the sign bit) and nine limbs of 7 bits
LongLimbs == 10
\* the significant bits an IEEE double keeps
DoubleBits == 53

\* ds without its leading zeros
StripZeros(ds) ==
    LET nz == {i \in 1..Len(ds) : ds[i] # 0} IN
    IF nz = {} THEN <<>>
    ELSE SubSeq(ds, CHOOSE i \in nz : \A j \in nz : i <= j, Len(ds))

Zeros(k) == [i \in 1..k |-> 0]

\* C#: long num = 0
CsZero == Zeros(LongLimbs)

\* C#: num * 128 + original in unchecked 64-bit arithmetic, for a digit in
\* 0..127: the limbs move up one place, the bits above bit 63 are lost
CsMulAdd(n, d) ==
    [i \in 1..LongLimbs |->
        IF i = 1 THEN n[2] % 2
        ELSE IF i = LongLimbs THEN d
        ELSE n[i + 1]]

\* the value of a long: with the sign bit set it is the unsigned value
\* minus 2^64, of magnitude 128^9 minus the nine low limbs
CsValue(n) ==
    LET low == SubSeq(n, 2, LongLimbs)
        nz == {i \in 1..Len(low) : low[i] # 0}
    IN  IF n[1] = 0 THEN [neg |-> FALSE, mag |-> StripZeros(low)]
        ELSE IF nz = {} THEN [neg |-> TRUE, mag |-> <<1>> \o low]
        ELSE LET p == CHOOSE i \in nz : \A j \in nz : j <= i IN
             [neg |-> TRUE,
              mag |-> StripZeros([i \in 1..Len(low) |->
                                    IF i < p THEN Base - 1 - low[i]
                                    ELSE IF i = p THEN Base - low[i]
                                    ELSE 0])]

\* the 7 bits of a digit, most significant first
Bits7(d) == [k \in 1..7 |-> (d \div (2 ^ (7 - k))) % 2]

\* b + 1 on the bits b
Increment(b) ==
    LET z == {i \in 1..Len(b) : b[i] = 0} IN
    IF z = {} THEN <<1>> \o Zeros(Len(b))
    ELSE LET p == CHOOSE i \in z : \A j \in z : j <= i IN
         [i \in 1..Len(b) |-> IF i < p THEN b[i] ELSE IF i = p THEN 1 ELSE 0]

\* the double nearest to the whole number with the bits b, ties to the even
\* significand (the values here stay far below the largest double)
RoundToDouble(b) ==
    IF Len(b) <= DoubleBits THEN b
    ELSE LET keep == SubSeq(b, 1, DoubleBits)
             rest == SubSeq(b, DoubleBits + 1, Len(b))
             more == \E i \in 2..Len(rest) : rest[i] = 1
             up == rest[1] = 1 /\ (more \/ keep[DoubleBits] = 1)
         IN  (IF up THEN Increment(keep) ELSE keep) \o Zeros(Len(rest))

\* TypeScript: let num = 0, held as the bits of its (whole) value
TsZero == <<>>

\* TypeScript: num * 128 + original on doubles, for a digit in 0..127; the
\* product is exact and the sum is rounded once
TsMulAdd(n, d) == RoundToDouble(StripZeros(n \o Bits7(d)))

\* the value of a double that holds a whole number
TsValue(b) ==
    LET padded == Zeros((7 - (Len(b) % 7)) % 7) \o b IN
    [neg |-> FALSE,
     mag |-> [j \in 1..(Len(padded) \div 7) |->
                64 * padded[7 * j - 6] + 32 * padded[7 * j - 5]
                    + 16 * padded[7 * j - 4] + 8 * padded[7 * j - 3]
                    + 4 * padded[7 * j - 2] + 2 * padded[7 * j - 1]
                    + padded[7 * j]]]

\* the number of base-128 digits of n >= 0 (one digit for 0)
RECURSIVE NumDigits(_)
NumDigits(n) == IF n < Base THEN 1 ELSE 1 + NumDigits(n \div Base)

RECURSIVE Pow128(_)
Pow128(i) == IF i = 0 THEN 1 ELSE Base * Pow128(i - 1)

\* the digit of n at place i, counted from the least significant place 0
PlaceDigit(n, i) == (n \div Pow128(i)) % Base

\* the whole number k >= 0 as decode returns it
Natural(k) ==
    [neg |-> FALSE,
     mag |-> IF k = 0 THEN <<>>
             ELSE [j \in 1..NumDigits(k) |-> PlaceDigit(k, NumDigits(k) - j)]]

ZeroOf(im) == IF im = "ts" THEN TsZero ELSE CsZero
MulAdd(im, n, d) == IF im = "ts" THEN TsMulAdd(n, d) ELSE CsMulAdd(n, d)
ValueOf(im, n) == IF im = "ts" THEN TsValue(n) ELSE CsValue(n)

-----------------------------------------------------------------------------
(* decode *)

\* UTF-16 surrogate code units: a high one followed by a low one is one
\* character stored in two units
IsHighSurrogate(u) == u >= 55296 /\ u <= 56319
IsLowSurrogate(u) == u >= 56320 /\ u <= 57343

\* C#: GetGraphemeClusters, the text elements of str in order.  On the code
\* units the model feeds it (Units: no combining marks, no conjoining jamo)
\* a text element is a surrogate pair or a single unit.
RECURSIVE GetGraphemeClusters(_)
GetGraphemeClusters(str) ==
    IF str = <<>> THEN <<>>
    ELSE IF Len(str) >= 2 /\ IsHighSurrogate(str[1]) /\ IsLowSurrogate(str[2])
    THEN <<SubSeq(str, 1, 2)>> \o GetGraphemeClusters(SubSeq(str, 3, Len(str)))
    ELSE <<SubSeq(str, 1, 1)>> \o GetGraphemeClusters(SubSeq(str, 2, Len(str)))

\* TypeScript: str[i] for i = 0..str.length-1, the code units one by one
TsUnits(str) == [i \in 1..Len(str) |-> <<str[i]>>]

\* an unscramble without the wrap-around
UnscrambleNoWrap(scrambled, s) == scrambled - s

\* original = (scrambled - seed + 128) % 128
Unscramble(scrambled, s) == (scrambled - s + Base) % Base

\* a loop that skips a unit it does not know instead of throwing
RECURSIVE DecodeLoopSkipping(_, _, _, _, _, _)
DecodeLoopSkipping(im, map, units, s, i, n) ==
    IF i > Len(units) THEN Return(ValueOf(im, n))
    ELSE IF units[i] \notin DOMAIN map
    THEN DecodeLoopSkipping(im, map, units, s, i + 1, n)
    ELSE DecodeLoopSkipping(im, map, units, s, i + 1,
                            MulAdd(im, n, Unscramble(map[units[i]], s)))

\* for (i = 1; i < length; i++) { look the unit up; num = num * 128 + original }
RECURSIVE DecodeLoop(_, _, _, _, _, _)
DecodeLoop(im, map, units, s, i, n) ==
    IF i > Len(units) THEN Return(ValueOf(im, n))
    ELSE IF units[i] \notin DOMAIN map THEN Throw(ErrChar)
    ELSE DecodeLoop(im, map, units, s, i + 1,
                    MulAdd(im, n, Unscramble(map[units[i]], s)))

\* the part of decode both implementations share, on the units they split
\* into and with the accumulator of the host
DecodeUnits(im, map, units) ==
    IF Len(units) < 2 THEN Throw(ErrLength)
    ELSE IF units[1] \notin DOMAIN map THEN Throw(ErrSeedChar)
    ELSE DecodeLoop(im, map, units, map[units[1]], 2, ZeroOf(im))

\* TypeScript: str.length and str[i] count UTF-16 code units
TsDecode(map, str) == DecodeUnits("ts", map, TsUnits(str))

\* C#: the empty string is refused first, then the text elements are decoded
CsDecode(map, str) ==
    IF str = <<>> THEN Throw(ErrEmpty)
    ELSE DecodeUnits("cs", map, GetGraphemeClusters(str))

Decode(im, map, str) ==
    IF im = "ts" THEN TsDecode(map, str) ELSE CsDecode(map, str)

-----------------------------------------------------------------------------
(* The interactive loop at the end of each source file: prompt (a function *)
(* that asks a question and handles the answer in a callback) in           *)
(* TypeScript, the while (true) loop of Program.Main in C#.                *)

Said(what) == [said |-> what]

\* the text "exit"
ExitText == <<101, 120, 105, 116>>

\* the white space and the decimal digits both number parsers know
WhiteSpace == {9, 10, 11, 12, 13, 32}
DecimalDigits == 48..57

\* toLowerCase() / ToLower() on the letters A..Z
ToLower(str) ==
    [i \in 1..Len(str) |->
        IF str[i] \in 65..90 THEN str[i] + 32 ELSE str[i]]

\* answer.replace(/,/g, '') / answer.Replace(",", "")
RemoveCommas(str) == SelectSeq(str, LAMBDA u : u # 44)

\* the first position from `from` on whose unit is not in S, Len(str) + 1
\* when there is none
FirstNotIn(str, from, S) ==
    LET other == {i \in from..Len(str) : str[i] \notin S} IN
    IF other = {} THEN Len(str) + 1
    ELSE CHOOSE i \in other : \A j \in other : i <= j

\* the value of a run of decimal digits
RECURSIVE DecimalValue(_, _)
DecimalValue(ds, v) ==
    IF ds = <<>> THEN v
    ELSE DecimalValue(Tail(ds), 10 * v + (Head(ds) - 48))

\* the sign and the digit run at the start of str, after leading white
\* space: where the digits start and where they end
Scan(str) ==
    LET a == FirstNotIn(str, 1, WhiteSpace)
        signed == a <= Len(str) /\ str[a] \in {43, 45}
        b == IF signed THEN a + 1 ELSE a
        c == FirstNotIn(str, b, DecimalDigits)
    IN  [minus |-> signed /\ str[a] = 45,
         from |-> b,
         to |-> c,
         val |-> DecimalValue(SubSeq(str, b, c - 1), 0)]

\* TypeScript: parseInt(str, 10) takes the longest digit run after white
\* space and a sign and ignores what follows; without a digit it is NaN
TsParseInt(str) ==
    LET sc == Scan(str) IN
    IF sc.to = sc.from THEN [nan |-> TRUE, val |-> 0]
    ELSE [nan |-> FALSE, val |-> IF sc.minus THEN 0 - sc.val ELSE sc.val]

\* C#: long.TryParse(str, out num) accepts white space, a sign, digits,
\* white space and nothing else
CsTryParse(str) ==
    LET sc == Scan(str) IN
    IF sc.to = sc.from
            \/ FirstNotIn(str, sc.to, WhiteSpace) # Len(str) + 1
    THEN [ok |-> FALSE, val |-> 0]
    ELSE [ok |-> TRUE, val |-> IF sc.minus THEN 0 - sc.val ELSE sc.val]

\* the try block: encodeAll(num), then decode of each of the 128 strings
\* with its check mark; the first exception ends it in the catch block
PrintTable(im, table, map, k) ==
    LET allEncodings == EncodeAll(im, table, [int |-> k, frac |-> FALSE]) IN
    IF allEncodings.kind = "throw"
    THEN [said |-> "error", err |-> allEncodings.err]
    ELSE LET decoded == [i \in 1..Base |->
                            Decode(im, map, allEncodings.val[i])]
             thrown == {i \in 1..Base : decoded[i].kind = "throw"}
         IN  IF thrown # {}
             THEN [said |-> "error",
                   err |-> decoded[CHOOSE i \in thrown :
                                        \A j \in thrown : i <= j].err]
             ELSE [said |-> "table",
                   marks |-> Cardinality({i \in 1..Base :
                                            decoded[i].val = Natural(k)})]

\* TypeScript: the callback of rl.question
TsCallback(table, map, line) ==
    IF ToLower(line) = ExitText
    THEN [loop |-> "closed", report |-> Said("closed")]
    ELSE LET parsed == TsParseInt(RemoveCommas(line)) IN
         IF parsed.nan
         THEN [loop |-> "prompt", report |-> Said("invalid")]
         ELSE IF parsed.val < 0
         THEN [loop |-> "prompt", report |-> Said("negative")]
         ELSE [loop |-> "prompt",
               report |-> PrintTable("ts", table, map, parsed.val)]

\* C#: the body of while (true) after Console.ReadLine()
CsLoopBody(table, map, line) ==
    IF line = <<>> \/ ToLower(line) = ExitText
    THEN [loop |-> "closed", report |-> Said("closed")]
    ELSE LET parsed == CsTryParse(RemoveCommas(line)) IN
         IF ~parsed.ok
         THEN [loop |-> "prompt", report |-> Said("invalid")]
         ELSE IF parsed.val < 0
         THEN [loop |-> "prompt", report |-> Said("negative")]
         ELSE [loop |-> "prompt",
               report |-> PrintTable("cs", table, map, parsed.val)]

-----------------------------------------------------------------------------
(* The inputs the callers pass *)

Whole(k) == [int |-> k, frac |-> FALSE]
Half(k) == [int |-> k, frac |-> TRUE]

\* numbers at the edges of the 1-, 2-, 3- and 4-digit ranges, and the
\* documentation's examples 119 and 12345
BoundaryNums ==
    {119, 127, 128, 129, 255, 256, 12345, 16383, 16384, 16385,
     2097151, 2097152, 268435455}

Nums == (0..MaxNum) \cup BoundaryNums

\* the TypeScript number type also holds values that are not whole
NumInputs(im) ==
    {Whole(k) : k \in Nums \cup {-1, -129}}
        \cup (IF im = "ts" THEN {Half(k) : k \in {-1, 0, 5}} ELSE {})

SeedInputs == (-1)..Base

\* code units: three symbols of the alphabet, the letter A, a syllable that
\* is not in the alphabet, and the two halves of U+1F600
Units == {CHARS[1][1], CHARS[2][1], CHARS[Base][1], 65, 44033, 55357, 56832}

RawStrings == UNION {[1..n -> Units] : n \in 0..MaxLen}

\* longer strings of symbols of the alphabet: a seed symbol, a first data
\* symbol, and one data symbol repeated; with the seed symbol taken from the
\* same three the data digits are 0, 1, 2, 126 and 127
LongStrings ==
    {<<u, a>> \o [i \in 1..k |-> b] :
        u \in {CHARS[1][1], CHARS[2][1], CHARS[Base][1]},
        a \in {CHARS[1][1], CHARS[2][1], CHARS[Base][1]},
        b \in {CHARS[1][1], CHARS[2][1], CHARS[Base][1]},
        k \in 2..(MaxData - 1)}

\* the units a typed line is made of: 0, 1, comma, minus, space, x
LineUnits == {48, 49, 44, 45, 32, 120}

\* the lines the user types: every line of at most MaxLine units over
\* LineUnits, the exit command in three spellings and with a trailing
\* space, 119, 12345, 1,000 and -129
Lines ==
    UNION {[1..n -> LineUnits] : n \in 0..MaxLine}
        \cup {ExitText, <<69, 88, 73, 84>>, <<69, 120, 105, 116>>,
              ExitText \o <<32>>,
              <<49, 49, 57>>, <<49, 50, 51, 52, 53>>,
              <<49, 44, 48, 48, 48>>, <<45, 49, 50, 57>>}

\* symbol tables a build could be configured with: the shipped one, one
\* entry short, one entry long
Tables == {CHARS, SubSeq(CHARS, 1, Base - 1), Append(CHARS, <<44033>>)}

-----------------------------------------------------------------------------
(* The state machine: a caller using the class.  The class keeps no state  *)
(* between calls (CHARS and REVERSE_MAP are never written after the static *)
(* initializer), so a behaviour is one call on the freshly loaded class    *)
(* followed by the decodes of what it returned, or by the encoding of the  *)
(* number it decoded.                                                      *)

InitWith(table) ==
    /\ impl \in {"ts", "cs"}
    /\ chars = table
    /\ REVERSE_MAP = StaticInit(table).map
    /\ warned = StaticInit(table).warned
    /\ op = "init"
    /\ num = Whole(0)
    /\ seed = 0
    /\ enc = NoResult
    /\ all = NoResult
    /\ idx = 0
    /\ input = <<>>
    /\ dec = NoResult
    /\ origin = "none"
    /\ loop = "prompt"
    /\ answer = <<>>
    /\ report = Said("none")

Init == InitWith(CHARS)

InitCfg == \E table \in Tables : InitWith(table)

CallEncodeWithSeed ==
    /\ op = "init"
    /\ \E n \in NumInputs(impl), s \in SeedInputs :
        /\ op' = "encodeWithSeed"
        /\ num' = n
        /\ seed' = s
        /\ enc' = EncodeWithSeed(impl, chars, n, s)
        /\ all' = NoResult
        /\ idx' = 0
        /\ input' = <<>>
        /\ dec' = NoResult
        /\ origin' = "none"
        /\ UNCHANGED <<impl, chars, REVERSE_MAP, warned, loop, answer,
                       report>>

CallEncode ==
    /\ op = "init"
    /\ \E n \in NumInputs(impl), s \in DrawnSeeds(impl) :
        /\ op' = "encode"
        /\ num' = n
        /\ seed' = s
        /\ enc' = EncodeWithSeed(impl, chars, n, s)
        /\ all' = NoResult
        /\ idx' = 0
        /\ input' = <<>>
        /\ dec' = NoResult
        /\ origin' = "none"
        /\ UNCHANGED <<impl, chars, REVERSE_MAP, warned, loop, answer,
                       report>>

CallEncodeAll ==
    /\ op = "init"
    /\ \E n \in NumInputs(impl) :
        /\ op' = "encodeAll"
        /\ num' = n
        /\ seed' = 0
        /\ enc' = NoResult
        /\ all' = EncodeAll(impl, chars, n)
        /\ idx' = 0
        /\ input' = <<>>
        /\ dec' = NoResult
        /\ origin' = "none"
        /\ UNCHANGED <<impl, chars, REVERSE_MAP, warned, loop, answer,
                       report>>

\* decode(encoded) on the string the last encodeWithSeed / encode returned
CallDecodeEncoded ==
    /\ enc.kind = "return"
    /\ op \in {"encodeWithSeed", "encode"}
    /\ op' = "decode"
    /\ input' = enc.val
    /\ dec' = Decode(impl, REVERSE_MAP, enc.val)
    /\ origin' = op
    /\ UNCHANGED <<impl, chars, REVERSE_MAP, warned, num, seed, enc, all, idx>>
    /\ UNCHANGED <<loop, answer, report>>

\* decode(allEncodings[idx]) on one of the strings the last encodeAll returned
CallDecodeOfAll ==
    /\ op = "encodeAll"
    /\ all.kind = "return"
    /\ \E i \in 0..(Len(all.val) - 1) :
        /\ op' = "decode"
        /\ idx' = i
        /\ input' = all.val[i + 1]
        /\ dec' = Decode(impl, REVERSE_MAP, all.val[i + 1])
        /\ origin' = "encodeAll"
        /\ UNCHANGED <<impl, chars, REVERSE_MAP, warned, num, seed, enc, all>>
        /\ UNCHANGED <<loop, answer, report>>

\* decode(str) on a string from anywhere
CallDecode ==
    /\ op = "init"
    /\ \E str \in RawStrings \cup LongStrings :
        /\ op' = "decode"
        /\ num' = Whole(0)
        /\ seed' = 0
        /\ enc' = NoResult
        /\ all' = NoResult
        /\ idx' = 0
        /\ input' = str
        /\ dec' = Decode(impl, REVERSE_MAP, str)
        /\ origin' = "raw"
        /\ UNCHANGED <<impl, chars, REVERSE_MAP, warned, loop, answer,
                       report>>

\* encodeWithSeed(decode(str), seed of str) on the number the last decode of
\* a string from anywhere returned
CallEncodeDecoded ==
    /\ op = "decode"
    /\ origin = "raw"
    /\ dec.kind = "return"
    /\ op' = "encodeDecoded"
    /\ num' = dec.val
    /\ seed' = REVERSE_MAP[<<input[1]>>]
    /\ enc' = EncodeWithSeed(impl, chars, dec.val, REVERSE_MAP[<<input[1]>>])
    /\ UNCHANGED <<impl, chars, REVERSE_MAP, warned, all, idx, input, dec,
                   origin, loop, answer, report>>

Next ==
    \/ CallEncodeWithSeed
    \/ CallEncode
    \/ CallEncodeAll
    \/ CallDecodeEncoded
    \/ CallDecodeOfAll
    \/ CallDecode
    \/ CallEncodeDecoded

Spec == Init /\ [][Next]_vars

\* the interactive loop reads a line
Question ==
    /\ loop = "prompt"
    /\ \E line \in Lines :
        /\ loop' = "answered"
        /\ answer' = line
        /\ report' = Said("none")
        /\ UNCHANGED <<impl, chars, REVERSE_MAP, warned, op, num, seed, enc,
                       all, idx, input, dec, origin>>

\* the interactive loop handles the line it read
Answer ==
    /\ loop = "answered"
    /\ LET after == IF impl = "ts"
                    THEN TsCallback(chars, REVERSE_MAP, answer)
                    ELSE CsLoopBody(chars, REVERSE_MAP, answer)
       IN  /\ loop' = after.loop
           /\ report' = after.report
    /\ UNCHANGED <<impl, chars, REVERSE_MAP, warned, op, num, seed, enc, all,
                   idx, input, dec, origin, answer>>

NextCli == Question \/ Answer

\* the program run from the command line
SpecCli == Init /\ [][NextCli]_vars

\* the same caller over every configured symbol table
SpecCfg == InitCfg /\ [][Next]_vars

-----------------------------------------------------------------------------
(* Properties *)

\* a non-negative whole number
NonNegWhole(n) == n.int >= 0 /\ ~n.frac

Seeds == 0..(Base - 1)

\* C1: round trip.  Every call encodeWithSeed(n, seed) with n a non-negative
\* whole number and seed in 0..127 returns a string, and decode of that
\* string returns exactly n.
C1_RoundTrip ==
    /\ (op = "encodeWithSeed" /\ NonNegWhole(num) /\ seed \in Seeds)
            => enc.kind = "return"
    /\ (op = "decode" /\ origin = "encodeWithSeed")
            => /\ NonNegWhole(num) /\ seed \in Seeds
               /\ input = enc.val
               /\ dec = Return(Natural(num.int))

\* C1 witness: a three-digit number encoded with a non-zero seed has been
\* decoded back
C1_Witness ==
    /\ op = "decode" /\ origin = "encodeWithSeed"
    /\ num = Whole(16385) /\ seed = 127
    /\ Len(input) = 4
    /\ dec = Return([neg |-> FALSE, mag |-> <<1, 0, 1>>])

\* C2: encodeAll(n) for a non-negative whole n returns exactly 128 strings in
\* ascending seed order, the one at position s being encodeWithSeed(n, s),
\* and each of the 128 decodes to n.
C2_EncodeAll ==
    /\ (op = "encodeAll" /\ NonNegWhole(num))
            => /\ all.kind = "return"
               /\ Len(all.val) = Base
               /\ \A s \in Seeds :
                    /\ all.val[s + 1] = EncodeWithSeed(impl, chars, num, s).val
                    /\ all.val[s + 1][1] = CHARS[s + 1][1]
                    /\ Decode(impl, REVERSE_MAP, all.val[s + 1])
                            = Return(Natural(num.int))
    /\ (op = "decode" /\ origin = "encodeAll")
            => /\ input = all.val[idx + 1]
               /\ dec = Return(Natural(num.int))

\* C2 witness: the last of the 128 encodings of 12345 has been decoded
C2_Witness ==
    /\ op = "decode" /\ origin = "encodeAll"
    /\ num = Whole(12345) /\ idx = Base - 1
    /\ Len(all.val) = Base
    /\ dec = Return([neg |-> FALSE, mag |-> <<96, 57>>])

\* C3: encode(n) for a non-negative whole n draws a seed in 0..127, never
\* fails with the seed-range error, returns encodeWithSeed(n, seed) for the
\* seed drawn, and the string returned decodes back to n.
C3_Encode ==
    /\ op = "encode" => seed \in Seeds /\ enc # Throw(ErrSeed)
    /\ (op = "encode" /\ NonNegWhole(num))
            => /\ enc.kind = "return"
               /\ enc.val[1] = CHARS[seed + 1][1]
               /\ Len(enc.val) = 1 + NumDigits(num.int)
    /\ (op = "decode" /\ origin = "encode")
            => /\ input = enc.val
               /\ dec = Return(Natural(num.int))

\* C3 witness: encode(119) drew the largest seed and its string decoded to 119
C3_Witness ==
    /\ op = "decode" /\ origin = "encode"
    /\ num = Whole(119) /\ seed = Base - 1
    /\ dec = Return([neg |-> FALSE, mag |-> <<119>>])

\* C4: injectivity at a fixed seed.  The string encodeWithSeed(n, seed)
\* returns differs from the one it returns for every other number at the
\* same seed.
C4_Injective ==
    (op = "encodeWithSeed" /\ enc.kind = "return")
        => \A m \in Nums \ {num.int} :
                EncodeWithSeed(impl, chars, Whole(m), seed) # enc

\* C4 witness: 128 was encoded with seed 1, and its string extends the one
\* of 1 at the same seed by a symbol
C4_Witness ==
    /\ op = "encodeWithSeed" /\ enc.kind = "return"
    /\ num = Whole(128) /\ seed = 1
    /\ 1 \in Nums
    /\ SubSeq(enc.val, 1, 2) = EncodeWithSeed(impl, chars, Whole(1), 1).val
    /\ Len(enc.val) = 3

\* C5: encodeWithSeed(n, seed) is Alphabet[seed] followed by
\* Alphabet[(d + seed) mod 128] for the base-128 digits d of n, most
\* significant first, without a leading zero digit (a single 0 for n = 0):
\* 1 + (number of digits) symbols, at least 2.  encodeWithSeed(0, 0) is
\* Alphabet[0] Alphabet[0], encodeWithSeed(12345, 0) is Alphabet[0]
\* Alphabet[96] Alphabet[57], and every encoding of 119 has length 2.
C5_Layout ==
    (op = "encodeWithSeed" /\ NonNegWhole(num) /\ seed \in Seeds)
        => /\ enc.kind = "return"
           /\ Len(enc.val) = 1 + NumDigits(num.int)
           /\ Len(enc.val) >= 2
           /\ enc.val[1] = CHARS[seed + 1][1]
           /\ \A j \in 1..NumDigits(num.int) :
                enc.val[1 + j] =
                    CHARS[((PlaceDigit(num.int, NumDigits(num.int) - j) + seed)
                                % Base) + 1][1]
           /\ (num.int > 0 => PlaceDigit(num.int, NumDigits(num.int) - 1) # 0)
           /\ (num.int = 0 /\ seed = 0 => enc.val = CHARS[1] \o CHARS[1])
           /\ (num.int = 12345 /\ seed = 0
                    => enc.val = CHARS[1] \o CHARS[97] \o CHARS[58])
           /\ (num.int = 119 => Len(enc.val) = 2)

\* C5 witness: 12345 was encoded with seed 0 into three symbols
C5_Witness ==
    /\ op = "encodeWithSeed"
    /\ num = Whole(12345) /\ seed = 0
    /\ enc = Return(<<44032, 53356, 49352>>)

\* C6: encodeWithSeed(n, seed) throws the argument error, and returns no
\* string, whenever n is negative or not whole or seed is outside 0..127.
C6_InvalidArgument ==
    (op = "encodeWithSeed" /\ (~NonNegWhole(num) \/ seed \notin Seeds))
        => enc \in {Throw(ErrNumber), Throw(ErrSeed)}

\* C6 witness: a valid number with seed 128 was refused
C6_Witness ==
    /\ op = "encodeWithSeed"
    /\ num = Whole(5) /\ seed = Base
    /\ enc = Throw(ErrSeed)

\* the symbols of the alphabet
Alphabet == {CHARS[i] : i \in 1..Base}

\* position i of str holds the second storage unit of a two-unit character
IsContinuation(str, i) ==
    i > 1 /\ IsLowSurrogate(str[i]) /\ IsHighSurrogate(str[i - 1])

\* the positions where a symbol of str starts
SymbolStarts(str) == {i \in 1..Len(str) : ~IsContinuation(str, i)}

\* the symbol of str that starts at position i
SymbolAt(str, i) ==
    IF i < Len(str) /\ IsContinuation(str, i + 1)
    THEN SubSeq(str, i, i + 1)
    ELSE SubSeq(str, i, i)

SymbolCount(str) == Cardinality(SymbolStarts(str))

\* C7: decode fails with the length error whenever its input holds fewer
\* than 2 symbols, counted along symbol boundaries: the empty string and
\* every single symbol, also one that takes two storage units.
C7_InvalidLength ==
    (op = "decode" /\ SymbolCount(input) < 2)
        => dec \in {Throw(ErrLength), Throw(ErrEmpty)}

C9_HardFailure == Len(chars) # Base => op = "init"

\* C10: the alphabet holds exactly 128 pairwise distinct symbols and the
\* reverse map is its inverse: index_of(symbol_at(i)) = i for i in 0..127,
\* symbol_at(index_of(c)) = c for every symbol c, and the reverse map has
\* exactly 128 entries.
C10_Bijection ==
    /\ Len(chars) = Base
    /\ Cardinality({chars[i] : i \in 1..Len(chars)}) = Base
    /\ Cardinality(DOMAIN REVERSE_MAP) = Base
    /\ \A i \in 0..(Base - 1) :
            /\ chars[i + 1] \in DOMAIN REVERSE_MAP
            /\ REVERSE_MAP[chars[i + 1]] = i
    /\ \A c \in DOMAIN REVERSE_MAP :
            /\ REVERSE_MAP[c] \in 0..(Base - 1)
            /\ chars[REVERSE_MAP[c] + 1] = c

\* C10 witness: both maps were used, the forward one by encodeWithSeed and
\* the reverse one by the decode of its result
C10_Witness ==
    /\ op = "decode" /\ origin = "encodeWithSeed"
    /\ seed = 64
    /\ REVERSE_MAP[<<input[1]>>] = 64
    /\ chars[65] = <<input[1]>>
    /\ dec.kind = "return"

\* the index of a symbol of the alphabet
IndexOf(c) == CHOOSE i \in 0..(Base - 1) : CHARS[i + 1] = c

\* the digit a data symbol stands for under the seed symbol of its string
DataDigit(str, j) ==
    (IndexOf(<<str[j]>>) - IndexOf(<<str[1]>>) + Base) % Base

\* the value of the fold value = value * 128 + digit over the data symbols
\* of str, starting from 0, in whole numbers of any size
FoldValue(str) ==
    [neg |-> FALSE,
     mag |-> StripZeros([j \in 1..(Len(str) - 1) |-> DataDigit(str, j + 1)])]

\* a seed symbol followed by one or more data symbols, all of the alphabet
WellFormed(str) ==
    Len(str) >= 2 /\ \A i \in 1..Len(str) : <<str[i]>> \in Alphabet

\* C11: for every string of a seed symbol followed by one or more data
\* symbols of the alphabet, of any length, decode returns the non-negative
\* whole number the fold value = value * 128 + digit gives over its data
\* symbols; the accumulator never wraps to a negative value and never
\* loses digits.
C11_FoldValue ==
    (op = "decode" /\ WellFormed(input)) => dec = Return(FoldValue(input))

\* C12: in the interactive loop, after any input line other than the exit
\* command (unparsable input, a negative number, an empty line, a number
\* whose codec call raises an error) the loop reports the problem and
\* prompts again; the loop ends only when the exit command is entered.
C12_ExitOnlyOnCommand ==
    /\ loop = "closed" => ToLower(answer) = ExitText
    /\ (loop = "prompt" /\ report # Said("none"))
            => /\ ToLower(answer) # ExitText
               /\ report.said \in {"invalid", "negative", "table", "error"}

\* str without the data symbols that stand for leading zero digits (the
\* last data symbol always stays)
Canonical(str) ==
    LET nz == {j \in 2..Len(str) : DataDigit(str, j) # 0 \/ j = Len(str)} IN
    <<str[1]>> \o SubSeq(str, CHOOSE j \in nz : \A k \in nz : j <= k, Len(str))

\* C13: for every string s of a seed symbol and one or more data symbols of
\* the alphabet, encodeWithSeed(decode(s), index of the first symbol of s)
\* is s again whenever s has exactly one data symbol or its first data
\* symbol stands for a non-zero digit; a string whose first data digit is
\* zero is accepted too and decodes to the value of the string without
\* its leading zero digits.
C13_CanonicalForm ==
    /\ (op = "encodeDecoded" /\ WellFormed(input)
            /\ (Len(input) = 2 \/ DataDigit(input, 2) # 0))
            => enc = Return(input)
    /\ (op = "decode" /\ WellFormed(input) /\ Canonical(input) # input)
            => /\ dec.kind = "return"
               /\ dec = Decode(impl, REVERSE_MAP, Canonical(input))

=============================================================================
